---------------------------- MODULE Spec2Model ----------------------------
(***************************************************************************)
(* A model of netzob's Data leaf variable (Data.py): the parsing           *)
(* primitives domainCMP, valueCMP and learn, the specialization primitives *)
(* use, regenerate and regenerateAndMemorize, and the svas dispatch that   *)
(* selects among them; the isDefined query, the equality of two Datas,    *)
(* and the bitarray objects the Data, the memory and the paths hold.       *)
(*                                                                         *)
(* Bit sequences are sequences over {0, 1}.  A dictionary (the memory, a   *)
(* path's results) is a function whose DOMAIN is its set of keys.          *)
(***************************************************************************)
EXTENDS Integers, Sequences, FiniteSets, TLC

\* ------------------------------------------------------------------ bounds
\* Longest content (in bits) handed to a parse, and longest generated value.
MaxLen == 2

\* ------------------------------------------------------------ value spaces
Bit == {0, 1}

BitSeqs(n) == UNION {[1..k -> Bit] : k \in 0..n}

\* Python's None for an optional bitarray: a value outside every BitSeqs(n).
None == <<-1>>

\* dataType.size = (minSize, None): the type declares no maximum.
NoMax == -1

SVAS == {"CONSTANT", "PERSISTENT", "EPHEMERAL", "VOLATILE"}

\* The key of this Data in the memory and in a path's results, and the key
\* of another variable of the same symbol.
Self == "data"

Other == "other"

\* What the other variable holds in the memory and in the input path.
OtherMemorized == <<1>>

OtherResult == <<0>>

\* The parseability predicates of the modelled data types.
Kinds == {"Raw", "EndsWithOne"}

\* The (minSize, maxSize) pairs of the modelled data types.
Sizes == {s \in (0..(MaxLen - 1)) \X ((0..MaxLen) \cup {NoMax}) : s[2] = NoMax \/ s[1] <= s[2]}

\* The originalValue given at construction.
OriginalValues == {None, <<>>, <<1>>, <<1, 0>>}

\* attached: whether the path handed to the primitives references the memory
\* (path.memory is not None)
\* answer: the boolean returned by the last isDefined or __eq__ call
\* peer: the Data this Data is compared with
\* heap, refs: the bitarray objects and who references them
VARIABLES svas, currentValue, dataType, memory, attached, path, returned, op, carnivorous, raised, memBefore, answer, peer, heap, refs

vars == <<svas, currentValue, dataType, memory, attached, path, returned, op, carnivorous, raised, memBefore, answer, peer, heap, refs>>

\* ------------------------------------------------------------ sequences
Min(a, b) == IF a < b THEN a ELSE b

\* content[:size]
Take(content, size) == SubSeq(content, 1, Min(size, Len(content)))

\* Variant of DescRange: the sizes are tried shortest first.
AscRange(hi, lo) == IF hi < lo THEN <<>> ELSE [i \in 1..(hi - lo + 1) |-> lo + i - 1]

\* xrange(hi, lo - 1, -1) as a sequence
DescRange(hi, lo) == IF hi < lo THEN <<>> ELSE [i \in 1..(hi - lo + 1) |-> hi - i + 1]

\* ------------------------------------------------------ collaborators
\* dataType.canParse(data)
canParse(data) == IF dataType.kind = "Raw" THEN TRUE ELSE Len(data) > 0 /\ data[Len(data)] = 1

\* the values dataType.generate() may return
Generated == {v \in BitSeqs(MaxLen) : Len(v) >= dataType.minSize /\ (dataType.maxSize = NoMax \/ Len(v) <= dataType.maxSize)}

\* Memory.hasValue(variable)
hasValue(mem, key) == key \in DOMAIN mem

\* Memory.getValue(variable)
getValue(mem, key) == mem[key]

\* Memory.memorize(variable, value)
memorize(mem, key, value) == [k \in DOMAIN mem \cup {key} |-> IF k = key THEN value ELSE mem[k]]

\* GenericPath.addResult(variable, value)
addResult(results, key, value) == [k \in DOMAIN results \cup {key} |-> IF k = key THEN value ELSE results[k]]

\* The path handed to a primitive: it holds the other variable's result and
\* the content assigned to this variable.
\* path.memory names the memory it references, "None" when it has none.
InputPath(content) == [id |-> 0, results |-> (Other :> OtherResult), content |-> content, memory |-> IF attached THEN "memory" ELSE "None"]

\* ParsingPath.duplicate(): a new path object with a copy of the results,
\* referencing the same memory.
duplicate(p, newId) == [id |-> newId, results |-> p.results, content |-> p.content, memory |-> p.memory]


\* Data.currentValue (the property): the original value, or None
knownValue == currentValue

\* Variant of isDefined: a value is always reported.
isDefinedAlways(mem) == TRUE

\* Variant of isDefined: the memory is not consulted.
isDefinedIgnoringMemory(mem) == knownValue # None

\* Variant of isDefined: the original value is not consulted.
isDefinedIgnoringValue(mem) == hasValue(mem, Self)

\* ------------------------------------------------------------ isDefined
\* Data.isDefined(path), for a path with a memory attached
isDefined(mem) == IF knownValue # None THEN TRUE ELSE hasValue(mem, Self)

\* ---------------------------------------------------- domainCMP and learn
\* Variant of declaredMax: the declared maximum is never applied.
declaredMaxIgnored(content) == Len(content)

\* "if maxSize is None: maxSize = len(content)"
declaredMax(content) == IF dataType.maxSize = NoMax THEN Len(content) ELSE dataType.maxSize

\* Variant of tooShort: the length test is missing.
tooShortNever(content) == FALSE

\* "if len(content) < minSize: return results"
tooShort(content) == Len(content) < dataType.minSize

\* Variant of loopMin: the carnivorous flag does not raise the minimum.
loopMinIgnoringCarnivorous(content, carn) == dataType.minSize

\* the bounds of the loop, after "if carnivorous: minSize = maxSize = len(content)"
loopMin(content, carn) == IF carn THEN Len(content) ELSE dataType.minSize

loopMax(content, carn) == IF carn THEN Len(content) ELSE declaredMax(content)

\* Variant of loopSizes: xrange(min(maxSize, len(content)), minSize, -1)
loopSizesExclusive(content, carn) == DescRange(Min(loopMax(content, carn), Len(content)), loopMin(content, carn) + 1)

\* xrange(min(maxSize, len(content)), minSize - 1, -1)
loopSizes(content, carn) == DescRange(Min(loopMax(content, carn), Len(content)), loopMin(content, carn))

\* Variant of accepts: the size 0 is not accepted for itself.
acceptsParsableOnly(content, size) == canParse(Take(content, size))

\* "if size == 0 or self.dataType.canParse(content[:size])"
accepts(content, size) == size = 0 \/ canParse(Take(content, size))

\* Variant of domainStep: the result is added to the input path itself,
\* which is returned once for each accepted size.
domainStepInPlace(p, size, results) == Append(results, [p EXCEPT !.results = addResult(@, Self, Take(p.content, size))])

\* the body of domainCMP's loop for one accepted size: duplicate, addResult
domainStep(p, size, results) == LET newParsingPath == duplicate(p, Len(results) + 1) IN Append(results, [newParsingPath EXCEPT !.results = addResult(@, Self, Take(p.content, size))])

RECURSIVE domainLoop(_, _, _, _)
domainLoop(p, sizes, i, results) == IF i > Len(sizes) THEN results ELSE domainLoop(p, sizes, i + 1, IF accepts(p.content, sizes[i]) THEN domainStep(p, sizes[i], results) ELSE results)

\* Data.domainCMP(parsingPath, carnivorous): the successors, in order
domainCMP(p, carn) == IF tooShort(p.content) THEN <<>> ELSE domainLoop(p, loopSizes(p.content, carn), 1, <<>>)

\* Variant of learnStep: only the first accepted prefix is memorized.
learnStepKeepingFirst(p, size, acc) == [results |-> domainStep(p, size, acc.results), memory |-> IF acc.results = <<>> THEN memorize(acc.memory, Self, Take(p.content, size)) ELSE acc.memory]

\* the body of learn's loop for one accepted size: duplicate, addResult,
\* memorize in the memory the new path shares with the input path
learnStep(p, size, acc) == [results |-> domainStep(p, size, acc.results), memory |-> memorize(acc.memory, Self, Take(p.content, size))]

RECURSIVE learnLoop(_, _, _, _)
learnLoop(p, sizes, i, acc) == IF i > Len(sizes) THEN acc ELSE learnLoop(p, sizes, i + 1, IF accepts(p.content, sizes[i]) THEN learnStep(p, sizes[i], acc) ELSE acc)

\* Data.learn(parsingPath, carnivorous): the successors and the memory
learn(p, mem, carn) == IF tooShort(p.content) THEN [results |-> <<>>, memory |-> mem] ELSE learnLoop(p, loopSizes(p.content, carn), 1, [results |-> <<>>, memory |-> mem])

\* ------------------------------------------------------------- valueCMP
\* Variant of expectedValue: the original value is preferred to the memory.
expectedValuePreferringKnown(mem) == IF knownValue # None THEN knownValue ELSE IF hasValue(mem, Self) THEN getValue(mem, Self) ELSE None

\* "expectedValue = self.currentValue; if memory.hasValue(self): ..."
expectedValue(mem) == IF hasValue(mem, Self) THEN getValue(mem, Self) ELSE knownValue

\* Variant of matches: only the lengths are compared.
matchesLength(content, expected) == Len(content) >= Len(expected)

\* Variant of matches: the whole content is compared.
matchesWhole(content, expected) == content = expected

\* "len(content)>=len(expectedValue) and content[:len(expectedValue)] == expectedValue"
matches(content, expected) == Len(content) >= Len(expected) /\ Take(content, Len(expected)) = expected

\* ----------------------------------------------------------- the actions
Call(name, carn) == op' = name /\ carnivorous' = carn /\ memBefore' = memory /\ UNCHANGED <<svas, currentValue, dataType, attached, answer, peer, heap, refs>>

\* Variant of DomainCMP: the accepted prefixes are memorized, as learn does.
DomainCMPMemorizing(content, carn) ==
    /\ Call("domainCMP", carn)
    /\ path' = InputPath(content)
    /\ returned' = domainCMP(InputPath(content), carn)
    /\ raised' = "none"
    /\ memory' = learn(InputPath(content), memory, carn).memory

\* Variant of DomainCMP: a content that does not begin with the memorized
\* value is refused.
DomainCMPChecked(content, carn) ==
    /\ Call("domainCMP", carn)
    /\ path' = InputPath(content)
    /\ returned' = IF hasValue(memory, Self) /\ ~matches(content, getValue(memory, Self)) THEN <<>> ELSE domainCMP(InputPath(content), carn)
    /\ raised' = "none"
    /\ memory' = memory

DomainCMP(content, carn) ==
    /\ Call("domainCMP", carn)
    /\ path' = InputPath(content)
    /\ returned' = domainCMP(InputPath(content), carn)
    /\ raised' = "none"
    /\ memory' = memory

\* Variant of Learn: a content that does not begin with the memorized value
\* is refused and the memorized value is kept.
LearnChecked(content, carn) ==
    LET out == learn(InputPath(content), memory, carn)
        refused == hasValue(memory, Self) /\ ~matches(content, getValue(memory, Self))
    IN
    /\ Call("learn", carn)
    /\ path' = InputPath(content)
    /\ raised' = "none"
    /\ returned' = IF refused THEN <<>> ELSE out.results
    /\ memory' = IF refused THEN memory ELSE out.memory

Learn(content, carn) ==
    LET out == learn(InputPath(content), memory, carn) IN
    /\ Call("learn", carn)
    /\ path' = InputPath(content)
    /\ IF attached
       THEN returned' = out.results /\ raised' = "none" /\ memory' = out.memory
       ELSE \* "newParsingPath.memory.memorize" fails on the first accepted size
            /\ returned' = <<>>
            /\ raised' = IF out.results # <<>> THEN "AttributeError" ELSE "none"
            /\ memory' = memory

\* Variant of ValueCMP: a missing expected value is a mismatch, not an error.
ValueCMPWithoutCheck(content, carn) ==
    LET p == InputPath(content)
        expected == expectedValue(memory)
        found == [p EXCEPT !.results = addResult(@, Self, expected)]
    IN
    /\ Call("valueCMP", carn)
    /\ memory' = memory
    /\ raised' = IF attached THEN "none" ELSE "No memory available"
    /\ IF attached /\ expected # None /\ matches(content, expected)
       THEN path' = found /\ returned' = <<found>>
       ELSE path' = p /\ returned' = <<>>

\* Variant of ValueCMP: the result is added before the comparison.
ValueCMPRecordingFirst(content, carn) ==
    LET p == InputPath(content)
        expected == expectedValue(memory)
        found == [p EXCEPT !.results = addResult(@, Self, expected)]
    IN
    /\ Call("valueCMP", carn)
    /\ memory' = memory
    /\ IF ~attached
       THEN raised' = "No memory available" /\ path' = p /\ returned' = <<>>
       ELSE IF expected = None
            THEN raised' = "no value defined" /\ path' = p /\ returned' = <<>>
            ELSE /\ raised' = "none"
                 /\ path' = found
                 /\ returned' = IF matches(content, expected) THEN <<found>> ELSE <<>>

\* Variant of ValueCMP: with the carnivorous flag the expected value has to
\* be the whole content.
ValueCMPCarnivorous(content, carn) ==
    LET p == InputPath(content)
        expected == expectedValue(memory)
        found == [p EXCEPT !.results = addResult(@, Self, expected)]
    IN
    /\ Call("valueCMP", carn)
    /\ memory' = memory
    /\ IF ~attached
       THEN raised' = "No memory available" /\ path' = p /\ returned' = <<>>
       ELSE IF expected = None
            THEN raised' = "no value defined" /\ path' = p /\ returned' = <<>>
            ELSE /\ raised' = "none"
                 /\ IF matches(content, expected) /\ (carn => content = expected)
                    THEN path' = found /\ returned' = <<found>>
                    ELSE path' = p /\ returned' = <<>>

\* Variant of ValueCMP: the result is recorded in a duplicate of the path.
ValueCMPOnDuplicate(content, carn) ==
    LET p == InputPath(content)
        expected == expectedValue(memory)
        found == [duplicate(p, 1) EXCEPT !.results = addResult(@, Self, expected)]
    IN
    /\ Call("valueCMP", carn)
    /\ memory' = memory
    /\ path' = p
    /\ IF ~attached
       THEN raised' = "No memory available" /\ returned' = <<>>
       ELSE IF expected = None
            THEN raised' = "no value defined" /\ returned' = <<>>
            ELSE /\ raised' = "none"
                 /\ returned' = IF matches(content, expected) THEN <<found>> ELSE <<>>

ValueCMP(content, carn) ==
    LET p == InputPath(content)
        expected == expectedValue(memory)
        found == [p EXCEPT !.results = addResult(@, Self, expected)]
    IN
    /\ Call("valueCMP", carn)
    /\ memory' = memory
    /\ IF ~attached
       THEN raised' = "No memory available" /\ path' = p /\ returned' = <<>>
       ELSE IF expected = None
            THEN raised' = "no value defined" /\ path' = p /\ returned' = <<>>
            ELSE /\ raised' = "none"
                 /\ IF matches(content, expected)
                    THEN path' = found /\ returned' = <<found>>
                    ELSE path' = p /\ returned' = <<>>

\* Variant of Use: the original value is not used.
UseMemoryOnly ==
    LET p == InputPath(<<>>)
        fromMemory == [p EXCEPT !.results = addResult(@, Self, getValue(memory, Self))]
    IN
    /\ Call("use", FALSE)
    /\ memory' = memory
    /\ IF ~attached
       THEN raised' = "AttributeError" /\ path' = p /\ returned' = <<>>
       ELSE /\ raised' = "none"
            /\ IF hasValue(memory, Self)
               THEN path' = fromMemory /\ returned' = <<fromMemory>>
               ELSE path' = p /\ returned' = <<>>

\* Variant of Use: the original value is preferred to the memory.
UsePreferringValue ==
    LET p == InputPath(<<>>)
        fromMemory == [p EXCEPT !.results = addResult(@, Self, getValue(memory, Self))]
        fromValue == [p EXCEPT !.results = addResult(@, Self, knownValue)]
    IN
    /\ Call("use", FALSE)
    /\ memory' = memory
    /\ IF ~attached
       THEN raised' = "AttributeError" /\ path' = p /\ returned' = <<>>
       ELSE /\ raised' = "none"
            /\ IF knownValue # None
               THEN path' = fromValue /\ returned' = <<fromValue>>
               ELSE IF hasValue(memory, Self)
                    THEN path' = fromMemory /\ returned' = <<fromMemory>>
                    ELSE path' = p /\ returned' = <<>>

Use ==
    LET p == InputPath(<<>>)
        fromMemory == [p EXCEPT !.results = addResult(@, Self, getValue(memory, Self))]
        fromValue == [p EXCEPT !.results = addResult(@, Self, knownValue)]
    IN
    /\ Call("use", FALSE)
    /\ memory' = memory
    /\ IF ~attached
       THEN \* "memory.hasValue" fails
            raised' = "AttributeError" /\ path' = p /\ returned' = <<>>
       ELSE /\ raised' = "none"
            /\ IF hasValue(memory, Self)
               THEN path' = fromMemory /\ returned' = <<fromMemory>>
               ELSE IF knownValue # None
                    THEN path' = fromValue /\ returned' = <<fromValue>>
                    ELSE path' = p /\ returned' = <<>>

Regenerate(newValue) ==
    LET p == [InputPath(<<>>) EXCEPT !.results = addResult(@, Self, newValue)] IN
    /\ Call("regenerate", FALSE)
    /\ memory' = memory
    /\ raised' = "none"
    /\ path' = p
    /\ returned' = <<p>>

\* Variant of RegenerateAndMemorize: a value already memorized is kept.
RegenerateAndMemorizeOnce(newValue) ==
    LET p == [InputPath(<<>>) EXCEPT !.results = addResult(@, Self, newValue)] IN
    /\ Call("regenerateAndMemorize", FALSE)
    /\ IF attached
       THEN /\ memory' = IF hasValue(memory, Self) THEN memory ELSE memorize(memory, Self, newValue)
            /\ raised' = "none"
            /\ path' = p
            /\ returned' = <<p>>
       ELSE /\ memory' = memory
            /\ raised' = "AttributeError"
            /\ path' = InputPath(<<>>)
            /\ returned' = <<>>

RegenerateAndMemorize(newValue) ==
    LET p == [InputPath(<<>>) EXCEPT !.results = addResult(@, Self, newValue)] IN
    /\ Call("regenerateAndMemorize", FALSE)
    /\ IF attached
       THEN /\ memory' = memorize(memory, Self, newValue)
            /\ raised' = "none"
            /\ path' = p
            /\ returned' = <<p>>
       ELSE \* "variableSpecializerPath.memory.memorize" fails, before addResult
            /\ memory' = memory
            /\ raised' = "AttributeError"
            /\ path' = InputPath(<<>>)
            /\ returned' = <<>>

\* Variant of IsDefined: the path's memory is tested before the value.
IsDefinedMemoryFirst ==
    /\ op' = "isDefined" /\ carnivorous' = FALSE /\ memBefore' = memory
    /\ UNCHANGED <<svas, currentValue, dataType, attached, peer, heap, refs>>
    /\ memory' = memory
    /\ path' = InputPath(<<>>)
    /\ returned' = <<>>
    /\ IF ~attached
       THEN raised' = "Provided path has no memory attached." /\ answer' = FALSE
       ELSE raised' = "none" /\ answer' = isDefined(memory)

\* Data.isDefined(path), called for itself
IsDefined ==
    /\ op' = "isDefined" /\ carnivorous' = FALSE /\ memBefore' = memory
    /\ UNCHANGED <<svas, currentValue, dataType, attached, peer, heap, refs>>
    /\ memory' = memory
    /\ path' = InputPath(<<>>)
    /\ returned' = <<>>
    /\ IF knownValue = None /\ ~attached
       THEN raised' = "Provided path has no memory attached." /\ answer' = FALSE
       ELSE raised' = "none" /\ answer' = isDefined(memory)

\* ------------------------------------------------------- the svas dispatch
\* AbstractVariableLeaf.parse(parsingPath, carnivorous)
Parse(content, carn) ==
    \/ svas = "CONSTANT" /\ ValueCMP(content, carn)
    \/ svas = "PERSISTENT" /\ isDefined(memory) /\ ValueCMP(content, carn)
    \/ svas = "PERSISTENT" /\ ~isDefined(memory) /\ Learn(content, carn)
    \/ svas = "EPHEMERAL" /\ Learn(content, carn)
    \/ svas = "VOLATILE" /\ DomainCMP(content, carn)

\* a CONSTANT variable with no value cannot be specialized
CannotSpecialize ==
    /\ Call("specialize", FALSE)
    /\ memory' = memory
    /\ raised' = "cannot specialize"
    /\ path' = InputPath(<<>>)
    /\ returned' = <<>>

\* AbstractVariableLeaf.specialize(specializingPath)
Specialize(newValue) ==
    \/ svas = "CONSTANT" /\ isDefined(memory) /\ Use
    \/ svas = "CONSTANT" /\ ~isDefined(memory) /\ CannotSpecialize
    \/ svas = "PERSISTENT" /\ isDefined(memory) /\ Use
    \/ svas = "PERSISTENT" /\ ~isDefined(memory) /\ RegenerateAndMemorize(newValue)
    \/ svas = "EPHEMERAL" /\ RegenerateAndMemorize(newValue)
    \/ svas = "VOLATILE" /\ Regenerate(newValue)

\* ------------------------------------------------------------- __eq__
\* This Data as an object: its class, its id and its name besides the fields
\* the primitives read.
SelfData == [className |-> "Data", id |-> Self, name |-> Self, currentValue |-> currentValue, dataType |-> dataType, svas |-> svas]

\* Variant of key: the id takes part in the comparison.
keyWithId(d) == <<d.className, d.currentValue, d.dataType, d.svas, d.id>>

\* Data.__key
key(d) == <<d.className, d.currentValue, d.dataType, d.svas>>

\* Data.__eq__(x, y)
eq(x, y) == key(x) = key(y)

\* x == y is evaluated, x being this Data
Eq(y) ==
    /\ op' = "eq" /\ peer' = y /\ answer' = eq(SelfData, y)
    /\ UNCHANGED <<svas, currentValue, dataType, memory, attached, path, returned, carnivorous, raised, memBefore, heap, refs>>

\* ------------------------------------------------- the bitarray objects
\* heap[r] is the content of the bitarray object r; refs tells who holds
\* which object (0: none): refs.original is the object given to the
\* constructor, refs.current is Data.__currentValue, refs.memo is the
\* memory's entry for this variable, refs.results are the results the paths
\* record for this variable, refs.reads are the objects that reads of
\* Data.currentValue returned, refs.touched are the objects the caller has
\* changed in place, refs.calls tells how far the run has gone.
alloc(h, v) == [heap |-> Append(h, v), ref |-> Len(h) + 1]

\* bitarray.copy()
copy(h, r) == alloc(h, h[r])

\* the setter of Data.currentValue
setCurrentValue(h, r) == IF r = 0 THEN [heap |-> h, ref |-> 0] ELSE copy(h, r)

\* Variant of getCurrentValue: the object held by the Data is returned.
getCurrentValueItself(h, r) == [heap |-> h, ref |-> r]

\* the getter of Data.currentValue
getCurrentValue(h, r) == IF r = 0 THEN [heap |-> h, ref |-> 0] ELSE copy(h, r)

\* Variant of memorizeCopy: the memory keeps the object it is given.
memorizeItself(h, r) == [heap |-> h, ref |-> r]

\* Memory.memorize stores a copy of the object it is given
memorizeCopy(h, r) == copy(h, r)

\* Memory.getValue returns a copy of the object the memory holds
getValueCopy(h, r) == copy(h, r)

\* a change in place of a bitarray: invert(), or append(1) when it is empty
Flip(v) == IF v = <<>> THEN <<1>> ELSE [i \in 1..Len(v) |-> 1 - v[i]]

\* the objects the caller can reach and change in place
Held == ({refs.original} \cup refs.reads \cup refs.results) \ {0}

\* the values the paths of a search record, in order
ValuesOf(paths) == [i \in 1..Len(paths) |-> paths[i].results[Self]]

\* a run makes two calls
Called == IF refs.calls = "none" THEN "one" ELSE "two"

Object(name) ==
    /\ refs.calls # "two"
    /\ op' = name
    /\ UNCHANGED <<svas, currentValue, dataType, memory, attached, path, returned, carnivorous, raised, memBefore, answer, peer>>

\* value = data.currentValue
ReadCurrentValue ==
    LET got == getCurrentValue(heap, refs.current) IN
    /\ Object("read")
    /\ heap' = got.heap
    /\ refs' = [refs EXCEPT !.reads = (@ \cup {got.ref}) \ {0}, !.calls = Called]

\* the caller changes in place every object it holds, once in a run
Mutate ==
    /\ refs.touched = {} /\ Held # {}
    /\ op' = "mutate"
    /\ UNCHANGED <<svas, currentValue, dataType, memory, attached, path, returned, carnivorous, raised, memBefore, answer, peer>>
    /\ heap' = [r \in DOMAIN heap |-> IF r \in Held THEN Flip(heap[r]) ELSE heap[r]]
    /\ refs' = [refs EXCEPT !.touched = Held]

\* domainCMP: each result is a copy of a slice of the content
DomainCMPRef(content, carn) ==
    LET values == ValuesOf(domainCMP(InputPath(content), carn)) IN
    /\ Object("domainCMP")
    /\ heap' = heap \o values
    /\ refs' = [refs EXCEPT !.results = @ \cup ((Len(heap) + 1)..(Len(heap) + Len(values))), !.calls = Called]

\* learn: each result is a copy of a slice of the content, and the memory is
\* given another copy of it
LearnRef(content, carn) ==
    LET values == ValuesOf(learn(InputPath(content), memory, carn).results)
        recorded == heap \o values
        memorized == alloc(recorded, values[Len(values)])
    IN
    /\ Object("learn")
    /\ heap' = IF values = <<>> THEN heap ELSE memorized.heap
    /\ refs' = [refs EXCEPT !.results = @ \cup ((Len(heap) + 1)..(Len(heap) + Len(values))),
                            !.memo = IF values = <<>> THEN @ ELSE memorized.ref,
                            !.calls = Called]

\* valueCMP: the result is a copy of the expected value, which is read from
\* the memory or from Data.currentValue
ValueCMPRef(content) ==
    LET expected == IF refs.memo # 0 THEN getValueCopy(heap, refs.memo) ELSE getCurrentValue(heap, refs.current)
        found == alloc(heap, expected.heap[expected.ref])
    IN
    /\ Object("valueCMP")
    /\ expected.ref # 0
    /\ IF matches(content, expected.heap[expected.ref])
       THEN heap' = found.heap /\ refs' = [refs EXCEPT !.results = @ \cup {found.ref}, !.calls = Called]
       ELSE heap' = heap /\ refs' = [refs EXCEPT !.calls = Called]

\* use: the result is what Memory.getValue or Data.currentValue returns
UseRef ==
    LET got == IF refs.memo # 0 THEN getValueCopy(heap, refs.memo) ELSE getCurrentValue(heap, refs.current) IN
    /\ Object("use")
    /\ heap' = got.heap
    /\ refs' = [refs EXCEPT !.results = (@ \cup {got.ref}) \ {0}, !.calls = Called]

\* regenerate: the result is the generated object
RegenerateRef(newValue) ==
    LET new == alloc(heap, newValue) IN
    /\ Object("regenerate")
    /\ heap' = new.heap
    /\ refs' = [refs EXCEPT !.results = @ \cup {new.ref}, !.calls = Called]

\* regenerateAndMemorize: the generated object is given to Memory.memorize
\* and is the result
RegenerateAndMemorizeRef(newValue) ==
    LET new == alloc(heap, newValue)
        memorized == memorizeCopy(new.heap, new.ref)
    IN
    /\ Object("regenerateAndMemorize")
    /\ heap' = memorized.heap
    /\ refs' = [refs EXCEPT !.results = @ \cup {new.ref}, !.memo = memorized.ref, !.calls = Called]

\* ------------------------------------------------------ the specifications
\* A Data of any mode, type and original value, as constructed.
InitData ==
    /\ svas \in SVAS
    /\ currentValue \in OriginalValues
    /\ \E s \in Sizes, k \in Kinds : dataType = [minSize |-> s[1], maxSize |-> s[2], kind |-> k]

\* No primitive has been called yet.
InitCall ==
    /\ memBefore = memory
    /\ path = InputPath(<<>>)
    /\ returned = <<>>
    /\ op = "init"
    /\ carnivorous = FALSE
    /\ raised = "none"
    /\ answer = FALSE

\* No other Data is at hand, and no bitarray object is tracked.
NoPeer == [className |-> "none"]

NoRefs == [original |-> 0, current |-> 0, memo |-> 0, results |-> {}, reads |-> {}, touched |-> {}, calls |-> "none"]

InitAlone == peer = NoPeer /\ heap = <<>> /\ refs = NoRefs

\* The memories a primitive can be handed: the other variable's value, and
\* for this variable nothing or any value memorized earlier.
Memories == {(Other :> OtherMemorized)} \cup {memorize((Other :> OtherMemorized), Self, v) : v \in BitSeqs(MaxLen)}

Init ==
    /\ InitData
    /\ memory \in Memories
    /\ attached = TRUE
    /\ InitCall
    /\ InitAlone

\* One call of one primitive, on any content.
Next ==
    \/ \E content \in BitSeqs(MaxLen), carn \in BOOLEAN : op = "init" /\ DomainCMP(content, carn)
    \/ \E content \in BitSeqs(MaxLen), carn \in BOOLEAN : op = "init" /\ ValueCMP(content, carn)
    \/ \E content \in BitSeqs(MaxLen), carn \in BOOLEAN : op = "init" /\ Learn(content, carn)
    \/ op = "init" /\ Use
    \/ \E newValue \in Generated : op = "init" /\ Regenerate(newValue)
    \/ \E newValue \in Generated : op = "init" /\ RegenerateAndMemorize(newValue)
    \/ op = "init" /\ IsDefined

\* Every primitive applied to every Data, memory and content.
Spec == Init /\ [][Next]_vars

\* A run starts with a fresh memory that holds only the other variable's value.
InitRun ==
    /\ InitData
    /\ memory = (Other :> OtherMemorized)
    /\ attached = TRUE
    /\ InitCall
    /\ InitAlone

\* One run of a parser and a specializer that share a memory: every call
\* goes through the svas dispatch.
NextRun ==
    \/ \E content \in BitSeqs(MaxLen), carn \in BOOLEAN : Parse(content, carn)
    \/ \E newValue \in Generated : Specialize(newValue)

SpecRun == InitRun /\ [][NextRun]_vars

\* The primitives are handed a path that references no memory.
InitNoMemory ==
    /\ InitData
    /\ memory = (Other :> OtherMemorized)
    /\ attached = FALSE
    /\ InitCall
    /\ InitAlone

\* Every primitive applied to every Data and content, on a path with no
\* memory attached.
SpecNoMemory == InitNoMemory /\ [][Next]_vars

\* The types this Data's type is compared with: the same, and types of
\* another kind or with no maximum.
PeerTypes == {[dataType EXCEPT !.kind = k, !.maxSize = x] : k \in Kinds, x \in {dataType.maxSize, NoMax}}

\* The Datas this Data is compared with: itself, and Datas of another id, of
\* the same or another class and name, with any value and svas.
Peers == {SelfData} \cup {[className |-> c, id |-> Other, name |-> n, currentValue |-> v, dataType |-> t, svas |-> m] : c \in {"Data", "SubData"}, n \in {Self, Other}, v \in OriginalValues, t \in PeerTypes, m \in SVAS}

InitEq ==
    /\ InitData
    /\ memory = (Other :> OtherMemorized)
    /\ attached = TRUE
    /\ InitCall
    /\ peer = NoPeer /\ heap = <<>> /\ refs = NoRefs

NextEq == \E y \in Peers : op = "init" /\ Eq(y)

\* Every Data compared with every Data.
SpecEq == InitEq /\ [][NextEq]_vars

\* Data(dataType, originalValue): the caller's object is handed to the
\* setter.  The Data has any original value and a type of either kind that
\* sets no size limit; the memory holds nothing for the variable.  The
\* primitives are called for themselves and none of them reads svas.
InitObjects ==
    /\ svas = "EPHEMERAL"
    /\ currentValue \in OriginalValues
    /\ \E k \in Kinds : dataType = [minSize |-> 0, maxSize |-> NoMax, kind |-> k]
    /\ memory = (Other :> OtherMemorized)
    /\ attached = TRUE
    /\ InitCall
    /\ peer = NoPeer
    /\ LET given == IF currentValue = None THEN [heap |-> <<>>, ref |-> 0] ELSE alloc(<<>>, currentValue)
           kept == setCurrentValue(given.heap, given.ref)
       IN heap = kept.heap /\ refs = [NoRefs EXCEPT !.original = given.ref, !.current = kept.ref]

NextObjects ==
    \/ ReadCurrentValue
    \/ Mutate
    \/ \E content \in BitSeqs(MaxLen), carn \in BOOLEAN : DomainCMPRef(content, carn)
    \/ \E content \in BitSeqs(MaxLen), carn \in BOOLEAN : LearnRef(content, carn)
    \/ \E content \in BitSeqs(MaxLen) : ValueCMPRef(content)
    \/ UseRef
    \/ \E newValue \in Generated : RegenerateRef(newValue)
    \/ \E newValue \in Generated : RegenerateAndMemorizeRef(newValue)

\* Two calls among the reads of currentValue and the primitives, and a
\* change in place of the objects the caller holds, on the bitarray objects.
SpecObjects == InitObjects /\ [][NextObjects]_vars

\* ------------------------------------------------------------ properties
ParseOps == {"domainCMP", "valueCMP", "learn"}

SpecializeOps == {"use", "regenerate", "regenerateAndMemorize", "specialize"}

SearchOps == {"domainCMP", "learn"}

\* the value a returned path records for this variable
Recorded(i) == returned[i].results[Self]

\* the content the last call was given
Content == path.content

\* v is a prefix of content
BeginsWith(content, v) == Len(v) <= Len(content) /\ \A i \in 1..Len(v) : content[i] = v[i]

\* the first n bits of content, for n <= Len(content)
Prefix(content, n) == [i \in 1..n |-> content[i]]

\* C1: a Persistent variable with no original value whose value is already
\* memorized parses only contents that begin with the memorized value V: such
\* a parse returns exactly one path, which records V; any other parse returns
\* no path; in both cases the memory still holds V.
C1_PersistentExactAfterLearn ==
    (svas = "PERSISTENT" /\ currentValue = None /\ op \in ParseOps /\ hasValue(memBefore, Self)) =>
        /\ raised = "none"
        /\ hasValue(memory, Self) /\ memory[Self] = memBefore[Self]
        /\ IF BeginsWith(Content, memBefore[Self])
           THEN Len(returned) = 1 /\ Recorded(1) = memBefore[Self]
           ELSE returned = <<>>

\* A later parse of a content as long as V that differs from V is refused.
C1_Witness ==
    /\ svas = "PERSISTENT" /\ currentValue = None /\ op \in ParseOps
    /\ hasValue(memBefore, Self) /\ Len(memBefore[Self]) = MaxLen
    /\ Len(Content) = MaxLen /\ returned = <<>>

\* C2: for a Persistent variable with no original value, in a run of parse
\* and specialize calls on one memory: a call made with nothing memorized
\* that returns a path leaves a value memorized that one returned path
\* records; once a value is memorized no call changes the memory; and every
\* path returned then records the memorized value.
C2_PersistentStable ==
    (svas = "PERSISTENT" /\ currentValue = None /\ op # "init") =>
        /\ (~hasValue(memBefore, Self) /\ returned # <<>>) =>
               hasValue(memory, Self) /\ \E i \in 1..Len(returned) : Recorded(i) = memory[Self]
        /\ hasValue(memBefore, Self) =>
               memory = memBefore /\ \A i \in 1..Len(returned) : Recorded(i) = memBefore[Self]

\* A specialize call made with a value memorized returns that value.
C2_Witness ==
    /\ svas = "PERSISTENT" /\ currentValue = None /\ op = "use"
    /\ hasValue(memBefore, Self) /\ Len(memBefore[Self]) > 0
    /\ Len(returned) = 1 /\ Recorded(1) = memBefore[Self]

\* C3: for an Ephemeral variable, after every parse or specialize call that
\* returns a path, the memory holds the value recorded by each returned path.
C3_EphemeralMemoryIsResult ==
    (svas = "EPHEMERAL" /\ op # "init" /\ returned # <<>>) =>
        hasValue(memory, Self) /\ \A i \in 1..Len(returned) : Recorded(i) = memory[Self]

\* C4: for a Volatile variable, no parse or specialize call changes the
\* memory, and the memory never holds a value for the variable.
C4_VolatileNoTrace ==
    svas = "VOLATILE" => ~hasValue(memory, Self) /\ memory = memBefore /\ raised = "none"

\* A volatile parse that returned several paths.
C4_Witness ==
    svas = "VOLATILE" /\ op = "domainCMP" /\ Len(returned) >= 2 /\ currentValue # None

\* C5: a Constant or Persistent variable with an original value is never
\* memorized in a run that starts with nothing memorized, and each of its
\* specializations returns one path recording the original value.
C5_FixedValueNeverMemorized ==
    (currentValue # None /\ svas \in {"CONSTANT", "PERSISTENT"}) =>
        /\ ~hasValue(memory, Self)
        /\ op \in SpecializeOps => Len(returned) = 1 /\ Recorded(1) = currentValue

\* A Persistent variable with an original value has been parsed successfully.
C5_Witness ==
    /\ svas = "PERSISTENT" /\ currentValue # None /\ Len(currentValue) > 0
    /\ op = "valueCMP" /\ Len(returned) = 1

\* C6: valueCMP for a Constant variable with original value V and nothing
\* memorized returns exactly one path, recording V, when the content is at
\* least as long as V and begins with V, and no path otherwise.
C6_ConstantExactPrefix ==
    (svas = "CONSTANT" /\ currentValue # None /\ ~hasValue(memBefore, Self) /\ op = "valueCMP") =>
        /\ raised = "none"
        /\ IF BeginsWith(Content, currentValue)
           THEN Len(returned) = 1 /\ Recorded(1) = currentValue
           ELSE returned = <<>>

\* A content strictly longer than V that begins with V has been accepted.
C6_Witness ==
    /\ svas = "CONSTANT" /\ currentValue # None /\ ~hasValue(memBefore, Self) /\ op = "valueCMP"
    /\ Len(currentValue) > 0 /\ Len(Content) > Len(currentValue) /\ Len(returned) = 1

\* C7 as stated: whatever the carnivorous flag, every path returned by
\* domainCMP or learn records a prefix no longer than the content and no
\* longer than the declared maximum of the type.
C7_LengthBound ==
    op \in SearchOps =>
        \A i \in 1..Len(returned) :
            /\ Len(Recorded(i)) <= Len(Content)
            /\ dataType.maxSize # NoMax => Len(Recorded(i)) <= dataType.maxSize

\* C7 amended: every path returned by domainCMP or learn records a prefix no
\* longer than the content; without the carnivorous flag the prefix is no
\* longer than the declared maximum of the type; with the flag the prefix is
\* the whole content, whatever the declared maximum.
C7_LengthBoundAmended ==
    op \in SearchOps =>
        \A i \in 1..Len(returned) :
            /\ Len(Recorded(i)) <= Len(Content)
            /\ (~carnivorous /\ dataType.maxSize # NoMax) => Len(Recorded(i)) <= dataType.maxSize
            /\ carnivorous => Len(Recorded(i)) = Len(Content)

\* Without the flag, a content longer than the declared maximum has been
\* parsed up to the declared maximum.
C7_Witness ==
    /\ op \in SearchOps /\ ~carnivorous /\ dataType.maxSize # NoMax
    /\ Len(Content) > dataType.maxSize /\ returned # <<>>
    /\ Len(Recorded(1)) = dataType.maxSize

\* the lengths n in [min, min(max, len)] with n = 0 or canParse on the prefix
AcceptedLengths == {n \in dataType.minSize..Min(declaredMax(Content), Len(Content)) : n = 0 \/ canParse(Prefix(Content, n))}

\* C8: without the carnivorous flag and with a content at least minSize
\* long, domainCMP and learn return exactly one path for each accepted
\* length n, recording the prefix of length n, and no other path.
C8_SoundAndComplete ==
    (op \in SearchOps /\ ~carnivorous /\ Len(Content) >= dataType.minSize) =>
        /\ Len(returned) = Cardinality(AcceptedLengths)
        /\ \A n \in AcceptedLengths : \E i \in 1..Len(returned) : Recorded(i) = Prefix(Content, n)
        /\ \A i \in 1..Len(returned) : \E n \in AcceptedLengths : Recorded(i) = Prefix(Content, n)

\* A search that accepted the empty prefix and a longer one and rejected a
\* length in between or above.
C8_Witness ==
    /\ op \in SearchOps /\ ~carnivorous /\ dataType.minSize = 0
    /\ Len(returned) >= 2
    /\ Len(returned) < Min(declaredMax(Content), Len(Content)) + 1

\* the paths are returned in strictly decreasing order of recorded length
LongestFirst == \A i \in 1..Len(returned), j \in 1..Len(returned) : i < j => Len(Recorded(i)) > Len(Recorded(j))

\* the length min(max, len) of the longest candidate the type allows
MaximalLength == Min(declaredMax(Content), Len(Content))

\* C9 as stated: domainCMP and learn return their paths longest first, and
\* when the content is at least minSize long and canParse holds on its prefix
\* of length min(max, len), the first path records that prefix.
C9_LongestFirst ==
    op \in SearchOps =>
        /\ LongestFirst
        /\ (Len(Content) >= dataType.minSize /\ canParse(Prefix(Content, MaximalLength))) =>
               returned # <<>> /\ Recorded(1) = Prefix(Content, MaximalLength)

\* C9 amended: the paths are returned longest first; the first path records
\* the prefix of length min(max, len), when canParse holds on it and the
\* content is at least minSize long, provided the carnivorous flag is unset
\* or min(max, len) is the whole content.
C9_LongestFirstAmended ==
    op \in SearchOps =>
        /\ LongestFirst
        /\ (Len(Content) >= dataType.minSize /\ canParse(Prefix(Content, MaximalLength))
              /\ (~carnivorous \/ MaximalLength = Len(Content))) =>
               returned # <<>> /\ Recorded(1) = Prefix(Content, MaximalLength)

\* Three paths were returned, the first recording the maximal length.
C9_Witness ==
    /\ op \in SearchOps /\ ~carnivorous /\ Len(returned) >= 3
    /\ MaximalLength > 0 /\ Recorded(1) = Prefix(Content, MaximalLength)

\* C10: a content shorter than minSize makes domainCMP and learn return no
\* path, whatever the carnivorous flag; and whenever learn returns no path
\* the memory is as it was before the call.
C10_DeadEndChangesNothing ==
    /\ (op \in SearchOps /\ Len(Content) < dataType.minSize) => returned = <<>>
    /\ (op = "learn" /\ returned = <<>>) => memory = memBefore

\* learn refused, with the carnivorous flag, a content the type can parse
\* but that is shorter than minSize, and the memory kept its value.
C10_Witness ==
    /\ op = "learn" /\ carnivorous /\ Len(Content) < dataType.minSize
    /\ canParse(Content) /\ returned = <<>>
    /\ hasValue(memory, Self) /\ memory = memBefore

\* C11: with the carnivorous flag, domainCMP and learn return at most one
\* path, and a returned path records the whole content, never a strict prefix.
C11_CarnivorousAllOrNothing ==
    (op \in SearchOps /\ carnivorous) =>
        /\ Len(returned) <= 1
        /\ \A i \in 1..Len(returned) : Recorded(i) = Content

\* With the flag, a content longer than minSize was recorded whole although
\* its shorter prefixes are parsable too.
C11_Witness ==
    /\ op \in SearchOps /\ carnivorous /\ dataType.kind = "Raw"
    /\ Len(Content) = MaxLen /\ dataType.minSize < Len(Content)
    /\ Len(returned) = 1 /\ Recorded(1) = Content

\* length 0 is among the lengths the search tries: the content is not
\* shorter than minSize, and 0 lies between the bounds in force (minSize and
\* the maximum without the carnivorous flag, the content length with it)
ZeroIsCandidate == dataType.minSize = 0 /\ (carnivorous => Content = <<>>)

ResultsBefore == (Other :> OtherResult)

\* C13: when valueCMP runs for a variable that has an original value K and a
\* memorized value S, the content is compared with S and S is recorded; K is
\* compared and recorded only when nothing is memorized.
C13_MemoryHasPriority ==
    (op = "valueCMP" /\ currentValue # None) =>
        LET E == IF Self \in DOMAIN memBefore THEN memBefore[Self] ELSE currentValue IN
        /\ raised = "none"
        /\ IF BeginsWith(Content, E)
           THEN Len(returned) = 1 /\ Recorded(1) = E
           ELSE returned = <<>>

\* A content that begins with S and not with K was accepted, recording S.
C13_Witness ==
    /\ op = "valueCMP" /\ currentValue # None /\ Self \in DOMAIN memBefore
    /\ ~BeginsWith(Content, currentValue)
    /\ Len(returned) = 1 /\ Recorded(1) = memBefore[Self] /\ Len(Recorded(1)) > 0

\* C14: valueCMP on a path with a memory attached, for a variable with no
\* original value and nothing memorized, raises an error for every content
\* and leaves the path's results and the memory unchanged.
C14_NoExpectedValueRaises ==
    (op = "valueCMP" /\ attached /\ currentValue = None /\ Self \notin DOMAIN memBefore) =>
        /\ raised = "no value defined"
        /\ returned = <<>>
        /\ path.results = ResultsBefore
        /\ memory = memBefore

\* The error was raised for a non-empty content.
C14_Witness ==
    /\ op = "valueCMP" /\ attached /\ currentValue = None /\ Self \notin DOMAIN memBefore
    /\ Len(Content) = MaxLen /\ raised = "no value defined"

\* C15: when valueCMP returns no path the results of the input path and the
\* memory are as before the call; when it succeeds the memory is unchanged
\* and exactly one result, the expected value, is added for the variable.
C15_ExactMatchFrame ==
    (op = "valueCMP" /\ raised = "none") =>
        LET E == IF Self \in DOMAIN memBefore THEN memBefore[Self] ELSE currentValue IN
        /\ memory = memBefore
        /\ IF returned = <<>>
           THEN path.results = ResultsBefore
           ELSE /\ Len(returned) = 1
                /\ DOMAIN path.results = {Self, Other}
                /\ path.results[Other] = OtherResult
                /\ path.results[Self] = E

\* valueCMP returned no path for a content shorter than the expected value.
C15_Witness ==
    /\ op = "valueCMP" /\ raised = "none" /\ returned = <<>>
    /\ Self \in DOMAIN memBefore /\ Len(Content) < Len(memBefore[Self])
    /\ BeginsWith(memBefore[Self], Content) /\ Len(Content) > 0
    /\ path.results = ResultsBefore

GeneratorOps == {"use", "regenerate", "regenerateAndMemorize"}

\* C16 as stated: for every variable, memory and original value, each of
\* use, regenerate and regenerateAndMemorize returns exactly one path.
C16_OneSuccessor ==
    (op \in GeneratorOps /\ attached) => Len(returned) = 1

\* C16 amended: regenerate and regenerateAndMemorize return exactly one
\* path; use returns exactly one path when a value is memorized or the
\* variable has an original value, and no path otherwise.
C16_OneSuccessorAmended ==
    (op \in GeneratorOps /\ attached) =>
        IF op = "use" /\ currentValue = None /\ Self \notin DOMAIN memBefore
        THEN returned = <<>>
        ELSE Len(returned) = 1 /\ Self \in DOMAIN returned[1].results

\* use returned one path on the strength of the original value alone.
C16_Witness ==
    /\ op = "use" /\ attached /\ currentValue # None /\ Self \notin DOMAIN memBefore
    /\ Len(returned) = 1 /\ Recorded(1) = currentValue

\* C17: use records the memorized value when there is one, otherwise the
\* original value when there is one, otherwise nothing and returns no path;
\* in all three cases the memory is unchanged.
C17_UseReadOnly ==
    (op = "use" /\ attached) =>
        /\ memory = memBefore
        /\ raised = "none"
        /\ IF Self \in DOMAIN memBefore
           THEN Len(returned) = 1 /\ Recorded(1) = memBefore[Self]
           ELSE IF currentValue # None
                THEN Len(returned) = 1 /\ Recorded(1) = currentValue
                ELSE returned = <<>> /\ path.results = ResultsBefore

\* use recorded a memorized value that differs from the original value.
C17_Witness ==
    /\ op = "use" /\ attached /\ currentValue # None /\ Self \in DOMAIN memBefore
    /\ memBefore[Self] # currentValue
    /\ Len(returned) = 1 /\ Recorded(1) = memBefore[Self]

\* C18: after every regenerateAndMemorize call, whatever was memorized
\* before and whether or not the variable has an original value, the memory
\* holds the generated value, which is the value the returned path records;
\* the other variable's memorized value is kept.
C18_AlwaysOverwrites ==
    (op = "regenerateAndMemorize" /\ attached) =>
        /\ raised = "none"
        /\ Len(returned) = 1 /\ Recorded(1) \in Generated
        /\ DOMAIN memory = {Self, Other}
        /\ memory[Self] = Recorded(1)
        /\ memory[Other] = memBefore[Other]

\* A memorized value was replaced by a different generated value, for a
\* variable that has an original value.
C18_Witness ==
    /\ op = "regenerateAndMemorize" /\ attached /\ currentValue # None
    /\ Self \in DOMAIN memBefore /\ memBefore[Self] # memory[Self]
    /\ Len(returned) = 1 /\ Recorded(1) = memory[Self]

\* C19: specializing a Constant variable that has no original value never
\* returns a path and is reported as an error, not as an empty collection.
C19_ConstantWithoutValue ==
    (svas = "CONSTANT" /\ currentValue = None /\ op \in SpecializeOps) =>
        returned = <<>> /\ raised # "none" /\ memory = memBefore

\* The specialization of a Constant variable with no value has failed.
C19_Witness ==
    /\ svas = "CONSTANT" /\ currentValue = None /\ op = "specialize"
    /\ returned = <<>> /\ raised = "cannot specialize"

\* C20: valueCMP and learn, called on a path with no memory attached, raise
\* an error for every content and every size bounds, and never return an
\* empty collection of paths.
C20_MissingMemoryRaises ==
    (op \in {"valueCMP", "learn"} /\ ~attached) => raised # "none"


\* C21: for a path with a memory attached, isDefined answers TRUE exactly
\* when the variable has an original value or the memory holds a value for
\* it, raises nothing, and leaves the memory and the path's results as they
\* were.
C21_IsDefinedQuery ==
    (op = "isDefined" /\ attached) =>
        /\ raised = "none"
        /\ answer = (currentValue # None \/ Self \in DOMAIN memBefore)
        /\ memory = memBefore
        /\ path.results = ResultsBefore
        /\ returned = <<>>

\* isDefined answered TRUE on the strength of the memory alone.
C21_Witness ==
    /\ op = "isDefined" /\ attached /\ currentValue = None
    /\ Self \in DOMAIN memory /\ answer

\* C22: no call changes the value a path has recorded, so a result recorded
\* by learn, valueCMP, use or regenerateAndMemorize keeps its value when a
\* later call overwrites the memory's entry; and a change in place of the
\* results the paths hold changes neither which object the memory holds nor
\* that object's content.
C22_ResultsAndMemoryIndependent ==
    [][/\ op' # "mutate" => \A r \in refs.results : heap'[r] = heap[r]
       /\ (op' = "mutate" /\ refs.memo # 0) =>
              /\ refs.results \subseteq refs'.touched
              /\ refs'.memo = refs.memo
              /\ heap'[refs.memo] = heap[refs.memo]]_vars

\* Two calls recorded a result and memorized a value, the second overwriting
\* the entry of the first; the results were then changed in place and differ
\* from the memorized value.
C22_Witness ==
    /\ op = "mutate" /\ refs.memo # 0
    /\ \E r1 \in refs.results, r2 \in refs.results :
           /\ r1 < r2 /\ r2 < refs.memo
           /\ {r1, r2} \subseteq refs.touched
           /\ heap[r2] # heap[refs.memo]

\* C23: the object the Data holds as its value keeps the content given at
\* construction and is never among the objects a caller holds, whatever is
\* read, parsed, specialized or changed in place (the object given to the
\* constructor and the objects returned by reads included); every read
\* returns an object with that content.
C23_KnownValueReadOnly ==
    /\ currentValue = None <=> refs.current = 0
    /\ refs.current # 0 => heap[refs.current] = currentValue /\ refs.current \notin Held
    /\ \A r \in refs.reads \ refs.touched : heap[r] = currentValue

\* After the object given to the constructor and a value read were changed
\* in place, a later read returned the original content.
C23_Witness ==
    /\ op = "read" /\ refs.original \in refs.touched
    /\ heap[refs.original] # currentValue
    /\ \E r \in refs.reads : r \in refs.touched /\ heap[r] # currentValue
    /\ \E r \in refs.reads : r \notin refs.touched /\ heap[r] = currentValue

\* C24: the paths returned by one domainCMP or learn call reference the memory
\* the input path references, so that the value learn memorized through the
\* last of them is the value that one memory holds; they are objects distinct
\* from one another and from the input path, each with its own results, to
\* which only the result of this variable was added; the results of the input
\* path are as before the call.
C24_SharedMemoryOwnResults ==
    (op \in SearchOps /\ attached) =>
        /\ path.memory = "memory"
        /\ \A i \in 1..Len(returned) : returned[i].memory = path.memory
        /\ \A i \in 1..Len(returned) : returned[i].id # path.id
        /\ \A i \in 1..Len(returned), j \in 1..Len(returned) : i # j => returned[i].id # returned[j].id
        /\ \A i \in 1..Len(returned) : DOMAIN returned[i].results = {Self, Other} /\ returned[i].results[Other] = OtherResult
        /\ path.results = ResultsBefore
        /\ (op = "learn" /\ returned # <<>>) => memory[Self] = Recorded(Len(returned))

\* learn returned several paths and replaced the value the memory held.
C24_Witness ==
    /\ op = "learn" /\ attached /\ Len(returned) >= 2
    /\ Self \in DOMAIN memBefore /\ memory # memBefore
    /\ Recorded(1) # Recorded(2)

\* the lengths domainCMP and learn accept: none for a content shorter than
\* minSize, the whole content at most with the carnivorous flag, the
\* accepted lengths between the declared bounds without it
SearchLengths == IF Len(Content) < dataType.minSize THEN {} ELSE IF carnivorous THEN {n \in {Len(Content)} : n = 0 \/ canParse(Content)} ELSE AcceptedLengths

\* the returned paths record the prefixes of the search lengths, longest
\* first: a function of the content, the flag and the type alone
DeterminedBySearch ==
    /\ Len(returned) = Cardinality(SearchLengths)
    /\ LongestFirst
    /\ \A i \in 1..Len(returned) : Len(Recorded(i)) \in SearchLengths /\ Recorded(i) = Prefix(Content, Len(Recorded(i)))

\* C25: a parse of an Ephemeral variable returns the paths that the content,
\* the size bounds and canParse determine, whatever value was memorized
\* before; when it returns a path the memory holds a newly parsed value (the
\* one recorded by the last path) in place of the former one.
C25_EphemeralIgnoresMemory ==
    (svas = "EPHEMERAL" /\ op \in ParseOps) =>
        /\ op = "learn" /\ raised = "none"
        /\ DeterminedBySearch
        /\ returned # <<>> => Self \in DOMAIN memory /\ memory[Self] = Recorded(Len(returned))
        /\ returned = <<>> => memory = memBefore

\* An Ephemeral variable parsed a content that does not begin with the value
\* memorized before, and the memory holds the new value.
C25_Witness ==
    /\ svas = "EPHEMERAL" /\ op = "learn"
    /\ Self \in DOMAIN memBefore /\ ~BeginsWith(Content, memBefore[Self])
    /\ Len(returned) = 1 /\ memory[Self] = Recorded(1) /\ memory[Self] # memBefore[Self]

\* C26: two Datas compare equal exactly when their class name, value, type
\* and svas are all the same, whatever their id and name; a Data is equal to
\* itself, and x == y gives what y == x gives.
C26_EqualityIgnoresIdentity ==
    op = "eq" =>
        /\ answer = (peer.className = "Data" /\ peer.currentValue = currentValue /\ peer.dataType = dataType /\ peer.svas = svas)
        /\ peer = SelfData => answer
        /\ eq(peer, SelfData) = answer

\* A Data of another id and name compared equal.
C26_Witness ==
    /\ op = "eq" /\ answer /\ peer.id # Self /\ peer.name # Self
    /\ currentValue # None

\* C27: when learn returns several paths, the memory holds on return the
\* shortest accepted prefix, which is the value recorded by the last path and
\* differs from the value recorded by the first (longest) path.
C27_LastWriteWins ==
    (op = "learn" /\ attached /\ Len(returned) >= 2) =>
        /\ Self \in DOMAIN memory
        /\ memory[Self] = Recorded(Len(returned))
        /\ memory[Self] # Recorded(1)
        /\ \A i \in 1..Len(returned) : Len(memory[Self]) <= Len(Recorded(i))
        /\ \A n \in AcceptedLengths : Len(memory[Self]) <= n

\* learn accepted three lengths and the memory holds the shortest prefix.
C27_Witness ==
    /\ op = "learn" /\ attached /\ Len(returned) >= 3
    /\ Self \in DOMAIN memBefore /\ memBefore[Self] = Recorded(1)
    /\ memory[Self] = Recorded(Len(returned))

\* C28: domainCMP and learn leave the results of the input path as they were
\* and never return the input path; valueCMP, use, regenerate and
\* regenerateAndMemorize record their result in the input path itself and
\* return that path and no other (and when valueCMP or use find no value to
\* record they return no path and leave the input path's results as they
\* were).
C28_WhichPathIsTouched ==
    attached =>
        /\ op \in SearchOps =>
               /\ path.results = ResultsBefore
               /\ \A i \in 1..Len(returned) : returned[i].id # path.id /\ returned[i] # path
        /\ op \in {"valueCMP"} \cup GeneratorOps =>
               IF returned = <<>>
               THEN path.results = ResultsBefore /\ op \in {"valueCMP", "use"}
               ELSE /\ returned = <<path>>
                    /\ DOMAIN path.results = {Self, Other}
                    /\ path.results[Other] = OtherResult

\* valueCMP recorded the expected value in the input path and returned it.
C28_Witness ==
    /\ op = "valueCMP" /\ attached /\ Len(returned) = 1
    /\ returned[1].id = path.id /\ Self \in DOMAIN path.results
    /\ Len(path.results[Self]) > 0

\* C29: valueCMP has the same outcome with and without the carnivorous
\* flag: it returns one path recording the expected value E when the content
\* begins with E, also when the content is longer than E, and no path
\* otherwise.
C29_ValueCMPIgnoresCarnivorous ==
    (op = "valueCMP" /\ attached) =>
        LET E == IF Self \in DOMAIN memBefore THEN memBefore[Self] ELSE currentValue IN
        IF E = None
        THEN raised = "no value defined" /\ returned = <<>>
        ELSE /\ raised = "none"
             /\ IF BeginsWith(Content, E)
                THEN Len(returned) = 1 /\ Recorded(1) = E
                ELSE returned = <<>>

\* With the flag set, a content strictly longer than the expected value was
\* accepted and only the expected value was recorded.
C29_Witness ==
    /\ op = "valueCMP" /\ attached /\ carnivorous
    /\ Len(returned) = 1 /\ Len(Content) > Len(Recorded(1))
    /\ Len(Recorded(1)) > 0

\* C30: the paths domainCMP returns, and the values they record, are the ones
\* the content, the flag and the type determine, whatever the memory holds,
\* a different value for the variable included; the memory is left as it
\* was.
C30_DomainCMPIgnoresMemory ==
    op = "domainCMP" =>
        /\ raised = "none"
        /\ DeterminedBySearch
        /\ \A i \in 1..Len(returned) : returned[i].results[Other] = OtherResult
        /\ memory = memBefore

\* domainCMP returned several paths although the memory holds a value for
\* the variable that the content does not begin with.
C30_Witness ==
    /\ op = "domainCMP" /\ Self \in DOMAIN memory
    /\ ~BeginsWith(Content, memory[Self])
    /\ Len(returned) >= 2

\* C31: for a variable with an original value isDefined answers TRUE and
\* raises nothing, whether or not the memory holds a value for it and also
\* when the path has no memory attached; it raises "no memory attached"
\* exactly when the variable has no original value and the path has no
\* memory; it never changes the memory.
C31_IsDefinedShortCircuit ==
    op = "isDefined" =>
        /\ currentValue # None => answer /\ raised = "none"
        /\ raised = "Provided path has no memory attached." <=> (currentValue = None /\ ~attached)
        /\ raised \in {"none", "Provided path has no memory attached."}
        /\ memory = memBefore

\* isDefined answered TRUE on a path with no memory attached.
C31_Witness ==
    /\ op = "isDefined" /\ ~attached /\ currentValue # None
    /\ Self \notin DOMAIN memory
    /\ answer /\ raised = "none"

=============================================================================
